---- MODULE Spec2Model ----
(***************************************************************************)
(* A model of readwritelock.ReadWriteLock (src/readwritelock/readwritelock.py). *)
(*                                                                         *)
(* The lock is a threading.Condition built on a plain, non-reentrant,      *)
(* owner-less threading.Lock, plus the integer _readers.  Every method is  *)
(* cut into the steps at which other threads can interleave: taking the    *)
(* mutex, loading and storing _readers (the += and -= are a load and a     *)
(* store), testing it, and releasing the mutex.  notify_all and wait are    *)
(* cut at the statements of threading.Condition that touch the Lock, the   *)
(* queue of waiters or a waiter: the ownership probe (a non-blocking       *)
(* acquire followed by a release when it succeeds), the append of the      *)
(* waiter, the release of the Lock, parking on the waiter, and in notify   *)
(* reading the length of the queue, testing it, reading its first waiter,  *)
(* releasing that waiter and removing it.  A waiter is a Lock of its own,  *)
(* allocated locked by wait(); it is named here by a number.               *)
(***************************************************************************)
EXTENDS Integers, Sequences, FiniteSets, TLC

\* Number of threads using the one lock.
NThreads == 3
\* Number of calls the threads issue in total, not counting the release of a
\* stake the caller holds.
MaxCalls == 4

Threads == 1..NThreads

VARIABLES
    readers,   \* self._readers
    mutex,     \* the Lock inside self._condition: 0 unlocked, else locked;
               \* the value records the thread whose acquire locked it
    cond_waiters, \* self._condition._waiters, the queue of waiters, oldest first
    wunlocked, \* the waiters that are unlocked: released by notify and not
               \* yet taken by the thread parked on them
    mywaiter,  \* per thread inside wait(): its waiter, from the append until
               \* it leaves the waiter behind; else 0
    cur,       \* per thread inside notify's loop: the waiter it has read from
               \* the queue; else 0
    nwake,     \* per thread inside notify_all: the n of notify(n) still to wake
    pc,        \* each thread's position in the method it is executing
    tmp,       \* each thread's operand between the load and the store of _readers
    call,      \* who invoked the running method: the caller itself or a scope wrapper
    scopes,    \* each thread's stack of open read_lock/write_lock scopes
    rstake,    \* per thread: completed acquire_read not yet matched by a release_read
    wstake,    \* per thread: returned from acquire_write, release_write not yet called
    calls      \* per thread: calls issued so far, matched releases not counted

\* the state of self._condition apart from its Lock
cond_state == <<cond_waiters, wunlocked, mywaiter, cur, nwake>>

vars == <<readers, mutex, cond_state, pc, tmp, call, scopes, rstake, wstake, calls>>

\* the threads registered by wait() and not yet woken
waiters == {t \in Threads : mywaiter[t] # 0 /\ mywaiter[t] \notin wunlocked}

\* the waiters some queue or thread still refers to
Referenced(q, m, c) ==
    ({q[i] : i \in 1..Len(q)} \cup {m[t] : t \in Threads} \cup {c[t] : t \in Threads}) \ {0}

\* waiter = _allocate_lock(): a waiter nothing refers to (the lowest number)
FreshWaiter ==
    LET used == Referenced(cond_waiters, mywaiter, cur)
    IN CHOOSE w \in 1..(Cardinality(used) + 1) :
           w \notin used /\ \A v \in 1..(w - 1) : v \in used

\* deque.remove(w): the queue without its first occurrence of w
RECURSIVE Remove(_, _)
Remove(q, w) ==
    IF q = <<>> THEN <<>>
    ELSE IF Head(q) = w THEN Tail(q)
    ELSE <<Head(q)>> \o Remove(Tail(q), w)

RECURSIVE SumCalls(_)
SumCalls(S) ==
    IF S = {} THEN 0
    ELSE LET t == CHOOSE x \in S : TRUE IN calls[t] + SumCalls(S \ {t})

\* the threads may issue another call
CallsLeft == SumCalls(Threads) < MaxCalls

\* src/readwritelock/readwritelock.py:45-53
Init ==
    /\ readers = 0
    /\ mutex = 0
    /\ cond_waiters = <<>>
    /\ wunlocked = {}
    /\ mywaiter = [t \in Threads |-> 0]
    /\ cur = [t \in Threads |-> 0]
    /\ nwake = [t \in Threads |-> 0]
    /\ pc = [t \in Threads |-> "idle"]
    /\ tmp = [t \in Threads |-> 0]
    /\ call = [t \in Threads |-> "raw"]
    /\ scopes = [t \in Threads |-> <<>>]
    /\ rstake = [t \in Threads |-> 0]
    /\ wstake = [t \in Threads |-> FALSE]
    /\ calls = [t \in Threads |-> 0]

------------------------------------------------------------------------------
(* threading.Lock: acquire blocks while locked; release unlocks whoever    *)
(* locked it and raises RuntimeError on an unlocked lock.                  *)

lock_free == mutex = 0

lock_acquire(t) == mutex' = t

\* a release that accepts an unlocked Lock
lock_release_ok_always == TRUE

lock_release_ok == mutex # 0

lock_release == mutex' = 0

Front(s) == SubSeq(s, 1, Len(s) - 1)

(* A method invoked in mode c (by the caller itself: "raw"; by a scope     *)
(* wrapper on entry, on normal exit, or while an exception unwinds) returns *)
(* normally: the wrapper then opens the scope (kind), closes it, or goes on *)
(* unwinding.                                                              *)
Returns(t, c, kind) ==
    /\ pc' = [pc EXCEPT ![t] = IF c = "unwind" THEN "raised" ELSE "idle"]
    /\ scopes' = [scopes EXCEPT ![t] =
                    CASE c = "enter" -> Append(@, kind)
                      [] c \in {"exit", "unwind"} -> Front(@)
                      [] OTHER -> @]
    /\ call' = [call EXCEPT ![t] = "raw"]

(* The method raises: an entered scope is not opened, an exiting scope is  *)
(* closed, and the exception travels on.                                   *)
Raises(t, c) ==
    /\ pc' = [pc EXCEPT ![t] = "raised"]
    /\ scopes' = [scopes EXCEPT ![t] =
                    IF c \in {"exit", "unwind"} THEN Front(@) ELSE @]
    /\ call' = [call EXCEPT ![t] = "raw"]

Goto(t, p) ==
    /\ pc' = [pc EXCEPT ![t] = p]
    /\ UNCHANGED <<call, scopes>>

\* where the caller stands when it invokes a method in mode c
CallerAt(c) == IF c = "unwind" THEN "raised" ELSE "idle"

Top(s) == s[Len(s)]

\* the positions of acquire_write from the call to the return, the paths
\* that raise left out
AcquireWritePath ==
    {"aw_acquire", "aw_check", "aw_wait", "aw_append", "aw_release", "aw_parked",
     "aw_restore"}

\* the positions of release_read inside notify_all, the paths that raise
\* left out
NotifyPath == {"rr_notify", "rr_owned", "rr_wake", "rr_first", "rr_wrelease", "rr_remove"}

\* t has been woken out of wait() and has not taken the Lock again yet
Woken(t) ==
    \/ pc[t] = "aw_parked" /\ mywaiter[t] \in wunlocked
    \/ pc[t] = "aw_restore"

\* t is inside acquire_write and has raised nothing
InAcquireWrite(t) == pc[t] \in AcquireWritePath

Invoke(t, p, c) ==
    /\ pc' = [pc EXCEPT ![t] = p]
    /\ call' = [call EXCEPT ![t] = c]
    /\ UNCHANGED scopes

------------------------------------------------------------------------------
(* acquire_read: with self._condition: self._readers += 1                  *)

acquire_read_begin(t, c) ==
    /\ pc[t] = "idle"
    /\ CallsLeft
    /\ calls' = [calls EXCEPT ![t] = @ + 1]
    /\ Invoke(t, "ar_enter", c)
    /\ UNCHANGED <<readers, mutex, cond_state, tmp, rstake, wstake>>

\* the caller calls acquire_read()
acquire_read(t) == acquire_read_begin(t, "raw")

\* variant: a reentrant lock, the thread that holds the Lock enters again
acquire_read_enter_reentrant(t) ==
    /\ pc[t] = "ar_enter"
    /\ lock_free \/ mutex = t
    /\ lock_acquire(t)
    /\ Goto(t, "ar_load")
    /\ UNCHANGED <<readers, cond_state, tmp, rstake, wstake, calls>>

\* variant: acquire_read without the with block, the Lock is not taken
acquire_read_enter_nolock(t) ==
    /\ pc[t] = "ar_enter"
    /\ Goto(t, "ar_load")
    /\ UNCHANGED <<readers, mutex, cond_state, tmp, rstake, wstake, calls>>

\* variant: writer preference, a reader does not enter while a writer waits
acquire_read_enter_writer_first(t) ==
    /\ pc[t] = "ar_enter"
    /\ lock_free
    /\ waiters = {}
    /\ lock_acquire(t)
    /\ Goto(t, "ar_load")
    /\ UNCHANGED <<readers, cond_state, tmp, rstake, wstake, calls>>

\* with self._condition: (Condition.__enter__ acquires the Lock, blocking)
acquire_read_enter(t) ==
    /\ pc[t] = "ar_enter"
    /\ lock_free
    /\ lock_acquire(t)
    /\ Goto(t, "ar_load")
    /\ UNCHANGED <<readers, cond_state, tmp, rstake, wstake, calls>>

\* self._readers += 1, the load
acquire_read_load(t) ==
    /\ pc[t] = "ar_load"
    /\ tmp' = [tmp EXCEPT ![t] = readers]
    /\ Goto(t, "ar_store")
    /\ UNCHANGED <<readers, mutex, cond_state, rstake, wstake, calls>>

\* an acquire_read whose store writes back the value read
acquire_read_store_lost(t) ==
    /\ pc[t] = "ar_store"
    /\ readers' = tmp[t]
    /\ tmp' = [tmp EXCEPT ![t] = 0]
    /\ Goto(t, "ar_exit")
    /\ UNCHANGED <<mutex, cond_state, rstake, wstake, calls>>

\* self._readers += 1, the store
acquire_read_store(t) ==
    /\ pc[t] = "ar_store"
    /\ readers' = tmp[t] + 1
    /\ tmp' = [tmp EXCEPT ![t] = 0]
    /\ Goto(t, "ar_exit")
    /\ UNCHANGED <<mutex, cond_state, rstake, wstake, calls>>

\* leaving the with block (Condition.__exit__ releases the Lock) and returning
acquire_read_exit(t) ==
    /\ pc[t] = "ar_exit"
    /\ IF lock_release_ok
         THEN /\ lock_release
              /\ rstake' = [rstake EXCEPT ![t] = @ + 1]
              /\ Returns(t, call[t], "R")
         ELSE /\ UNCHANGED <<mutex, rstake>>
              /\ Raises(t, call[t])
    /\ UNCHANGED <<readers, cond_state, tmp, wstake, calls>>

------------------------------------------------------------------------------
(* release_read: with self._condition: self._readers -= 1;                 *)
(*               if self._readers == 0: self._condition.notify_all()       *)

release_read_begin(t, c) ==
    /\ pc[t] = CallerAt(c)
    /\ Invoke(t, "rr_enter", c)
    /\ UNCHANGED <<readers, mutex, cond_state, tmp, rstake, wstake>>

\* the caller calls release_read() for a read stake it holds
release_read(t) ==
    /\ rstake[t] > 0
    /\ release_read_begin(t, "raw")
    /\ UNCHANGED calls

\* the caller calls release_read() holding no read stake
release_read_unmatched(t) ==
    /\ rstake[t] = 0
    /\ CallsLeft
    /\ calls' = [calls EXCEPT ![t] = @ + 1]
    /\ release_read_begin(t, "raw")

release_read_enter(t) ==
    /\ pc[t] = "rr_enter"
    /\ lock_free
    /\ lock_acquire(t)
    /\ Goto(t, "rr_load")
    /\ UNCHANGED <<readers, cond_state, tmp, rstake, wstake, calls>>

\* self._readers -= 1, the load
release_read_load(t) ==
    /\ pc[t] = "rr_load"
    /\ tmp' = [tmp EXCEPT ![t] = readers]
    /\ Goto(t, "rr_store")
    /\ UNCHANGED <<readers, mutex, cond_state, rstake, wstake, calls>>

\* a release_read that does not go below 0
release_read_store_clamped(t) ==
    /\ pc[t] = "rr_store"
    /\ readers' = IF tmp[t] > 0 THEN tmp[t] - 1 ELSE 0
    /\ tmp' = [tmp EXCEPT ![t] = 0]
    /\ Goto(t, "rr_test")
    /\ UNCHANGED <<mutex, cond_state, rstake, wstake, calls>>

\* self._readers -= 1, the store (no lower bound)
release_read_store(t) ==
    /\ pc[t] = "rr_store"
    /\ readers' = tmp[t] - 1
    /\ tmp' = [tmp EXCEPT ![t] = 0]
    /\ Goto(t, "rr_test")
    /\ UNCHANGED <<mutex, cond_state, rstake, wstake, calls>>

\* release_read that never notifies
release_read_test_no_notify(t) ==
    /\ pc[t] = "rr_test"
    /\ Goto(t, "rr_exit")
    /\ UNCHANGED <<readers, mutex, cond_state, tmp, rstake, wstake, calls>>

\* if self._readers == 0:
release_read_test(t) ==
    /\ pc[t] = "rr_test"
    /\ Goto(t, IF readers = 0 THEN "rr_notify" ELSE "rr_exit")
    /\ UNCHANGED <<readers, mutex, cond_state, tmp, rstake, wstake, calls>>

\* variant: notify() in place of notify_all(), at most one waiter is woken
release_read_notify_one(t) ==
    /\ pc[t] = "rr_notify"
    /\ nwake' = [nwake EXCEPT ![t] = 1]
    /\ Goto(t, "rr_owned")
    /\ UNCHANGED <<readers, mutex, cond_waiters, wunlocked, mywaiter, cur, tmp,
                   rstake, wstake, calls>>

\* self._condition.notify_all(): self.notify(len(self._waiters)), the length
\* is read first
release_read_notify_all(t) ==
    /\ pc[t] = "rr_notify"
    /\ nwake' = [nwake EXCEPT ![t] = Len(cond_waiters)]
    /\ Goto(t, "rr_owned")
    /\ UNCHANGED <<readers, mutex, cond_waiters, wunlocked, mywaiter, cur, tmp,
                   rstake, wstake, calls>>

\* notify's ownership probe, Condition._is_owned on a plain Lock: a
\* non-blocking acquire.  It fails on a locked Lock, whoever locked it, and
\* the Lock counts as owned; on a free Lock it succeeds and locks it
release_read_is_owned(t) ==
    /\ pc[t] = "rr_owned"
    /\ IF lock_free
         THEN /\ lock_acquire(t)
              /\ Goto(t, "rr_owned_rel")
         ELSE /\ UNCHANGED mutex
              /\ Goto(t, "rr_wake")
    /\ UNCHANGED <<readers, cond_state, tmp, rstake, wstake, calls>>

\* the probe took the Lock: it releases it again and notify raises
\* RuntimeError; the release itself raises when another thread has unlocked
\* the Lock in between
release_read_not_owned(t) ==
    /\ pc[t] = "rr_owned_rel"
    /\ IF lock_release_ok THEN lock_release ELSE UNCHANGED mutex
    /\ nwake' = [nwake EXCEPT ![t] = 0]
    /\ Goto(t, "rr_unwind")
    /\ UNCHANGED <<readers, cond_waiters, wunlocked, mywaiter, cur, tmp,
                   rstake, wstake, calls>>

\* notify's loop, the test: while waiters and n > 0
release_read_notify(t) ==
    /\ pc[t] = "rr_wake"
    /\ IF cond_waiters # <<>> /\ nwake[t] > 0
         THEN /\ Goto(t, "rr_first")
              /\ UNCHANGED nwake
         ELSE /\ nwake' = [nwake EXCEPT ![t] = 0]
              /\ Goto(t, "rr_exit")
    /\ UNCHANGED <<readers, mutex, cond_waiters, wunlocked, mywaiter, cur, tmp,
                   rstake, wstake, calls>>

\* notify's loop: waiter = waiters[0]; IndexError when another notify has
\* emptied the queue since the test
release_read_notify_first(t) ==
    /\ pc[t] = "rr_first"
    /\ IF cond_waiters = <<>>
         THEN /\ nwake' = [nwake EXCEPT ![t] = 0]
              /\ Goto(t, "rr_unwind")
              /\ UNCHANGED cur
         ELSE /\ cur' = [cur EXCEPT ![t] = Head(cond_waiters)]
              /\ Goto(t, "rr_wrelease")
              /\ UNCHANGED nwake
    /\ UNCHANGED <<readers, mutex, cond_waiters, wunlocked, mywaiter, tmp,
                   rstake, wstake, calls>>

\* notify's loop: waiter.release() and n -= 1; on a waiter that is already
\* unlocked the release raises RuntimeError, which is passed over
release_read_notify_release(t) ==
    /\ pc[t] = "rr_wrelease"
    /\ IF cur[t] \in wunlocked
         THEN UNCHANGED <<wunlocked, nwake>>
         ELSE /\ wunlocked' = wunlocked \cup {cur[t]}
              /\ nwake' = [nwake EXCEPT ![t] = @ - 1]
    /\ Goto(t, "rr_remove")
    /\ UNCHANGED <<readers, mutex, cond_waiters, mywaiter, cur, tmp,
                   rstake, wstake, calls>>

\* notify's loop: waiters.remove(waiter); ValueError, when it is no longer in
\* the queue, is passed over
release_read_notify_remove(t) ==
    /\ pc[t] = "rr_remove"
    /\ cond_waiters' = Remove(cond_waiters, cur[t])
    /\ cur' = [cur EXCEPT ![t] = 0]
    /\ wunlocked' = wunlocked \cap Referenced(cond_waiters', mywaiter, cur')
    /\ Goto(t, "rr_wake")
    /\ UNCHANGED <<readers, mutex, mywaiter, nwake, tmp, rstake, wstake, calls>>

\* leaving the with block and returning
release_read_exit(t) ==
    /\ pc[t] = "rr_exit"
    /\ IF lock_release_ok
         THEN /\ lock_release
              /\ Returns(t, call[t], "R")
         ELSE /\ UNCHANGED mutex
              /\ Raises(t, call[t])
    /\ rstake' = [rstake EXCEPT ![t] = IF @ > 0 THEN @ - 1 ELSE 0]
    /\ UNCHANGED <<readers, cond_state, tmp, wstake, calls>>

\* leaving the with block with notify_all's exception in flight
release_read_unwind(t) ==
    /\ pc[t] = "rr_unwind"
    /\ IF lock_release_ok THEN lock_release ELSE UNCHANGED mutex
    /\ Raises(t, call[t])
    /\ rstake' = [rstake EXCEPT ![t] = IF @ > 0 THEN @ - 1 ELSE 0]
    /\ UNCHANGED <<readers, cond_state, tmp, wstake, calls>>

------------------------------------------------------------------------------
(* acquire_write: self._condition.acquire();                               *)
(*                while self._readers > 0: self._condition.wait()          *)

acquire_write_begin(t, c) ==
    /\ pc[t] = "idle"
    /\ CallsLeft
    /\ calls' = [calls EXCEPT ![t] = @ + 1]
    /\ Invoke(t, "aw_acquire", c)
    /\ UNCHANGED <<readers, mutex, cond_state, tmp, rstake, wstake>>

\* the caller calls acquire_write()
acquire_write(t) == acquire_write_begin(t, "raw")

\* acquire on a reentrant lock: the thread that locked it may lock it again
acquire_write_acquire_reentrant(t) ==
    /\ pc[t] = "aw_acquire"
    /\ lock_free \/ mutex = t
    /\ lock_acquire(t)
    /\ Goto(t, "aw_check")
    /\ UNCHANGED <<readers, cond_state, tmp, rstake, wstake, calls>>

\* self._condition.acquire()
acquire_write_acquire(t) ==
    /\ pc[t] = "aw_acquire"
    /\ lock_free
    /\ lock_acquire(t)
    /\ Goto(t, "aw_check")
    /\ UNCHANGED <<readers, cond_state, tmp, rstake, wstake, calls>>

\* acquire_write without the wait loop: returns whatever _readers is
acquire_write_check_nowait(t) ==
    /\ pc[t] = "aw_check"
    /\ wstake' = [wstake EXCEPT ![t] = TRUE]
    /\ Returns(t, call[t], "W")
    /\ UNCHANGED <<readers, mutex, cond_state, tmp, rstake, calls>>

\* acquire_write written as a with block: the Lock is released on return
acquire_write_check_unlock(t) ==
    /\ pc[t] = "aw_check"
    /\ IF readers > 0
         THEN /\ Goto(t, "aw_wait")
              /\ UNCHANGED <<wstake, mutex>>
         ELSE /\ wstake' = [wstake EXCEPT ![t] = TRUE]
              /\ lock_release
              /\ Returns(t, call[t], "W")
    /\ UNCHANGED <<readers, cond_state, tmp, rstake, calls>>

\* an acquire_write that does not wait for the caller's own read stakes
acquire_write_check_own(t) ==
    /\ pc[t] = "aw_check"
    /\ IF readers - rstake[t] > 0
         THEN /\ Goto(t, "aw_wait")
              /\ UNCHANGED wstake
         ELSE /\ wstake' = [wstake EXCEPT ![t] = TRUE]
              /\ Returns(t, call[t], "W")
    /\ UNCHANGED <<readers, mutex, cond_state, tmp, rstake, calls>>

\* while self._readers > 0: ... ; falling out of the loop returns with the
\* Lock still locked
acquire_write_check(t) ==
    /\ pc[t] = "aw_check"
    /\ IF readers > 0
         THEN /\ Goto(t, "aw_wait")
              /\ UNCHANGED wstake
         ELSE /\ wstake' = [wstake EXCEPT ![t] = TRUE]
              /\ Returns(t, call[t], "W")
    /\ UNCHANGED <<readers, mutex, cond_state, tmp, rstake, calls>>

\* self._condition.wait(), the ownership probe (Condition._is_owned): a
\* non-blocking acquire that fails on a locked Lock, whoever locked it, and
\* succeeds on a free one, locking it
acquire_write_wait(t) ==
    /\ pc[t] = "aw_wait"
    /\ IF lock_free
         THEN /\ lock_acquire(t)
              /\ Goto(t, "aw_owned_rel")
         ELSE /\ UNCHANGED mutex
              /\ Goto(t, "aw_append")
    /\ UNCHANGED <<readers, cond_state, tmp, rstake, wstake, calls>>

\* the probe took the Lock: it releases it again and wait raises
\* RuntimeError; the release itself raises when another thread has unlocked
\* the Lock in between
acquire_write_not_owned(t) ==
    /\ pc[t] = "aw_owned_rel"
    /\ IF lock_release_ok THEN lock_release ELSE UNCHANGED mutex
    /\ Goto(t, "aw_except")
    /\ UNCHANGED <<readers, cond_state, tmp, rstake, wstake, calls>>

\* wait: waiter = _allocate_lock(); waiter.acquire();
\* self._waiters.append(waiter)
acquire_write_wait_append(t) ==
    /\ pc[t] = "aw_append"
    /\ cond_waiters' = Append(cond_waiters, FreshWaiter)
    /\ mywaiter' = [mywaiter EXCEPT ![t] = FreshWaiter]
    /\ Goto(t, "aw_release")
    /\ UNCHANGED <<readers, mutex, wunlocked, cur, nwake, tmp, rstake, wstake, calls>>

\* a wait that parks without releasing the Lock
acquire_write_wait_keeps_lock(t) ==
    /\ pc[t] = "aw_release"
    /\ Goto(t, "aw_parked")
    /\ UNCHANGED <<readers, mutex, cond_state, tmp, rstake, wstake, calls>>

\* wait: self._release_save() releases the Lock and the thread parks on its
\* waiter; on an unlocked Lock the release raises RuntimeError and wait is
\* left with the waiter still in the queue
acquire_write_wait_release(t) ==
    /\ pc[t] = "aw_release"
    /\ IF lock_release_ok
         THEN /\ lock_release
              /\ Goto(t, "aw_parked")
              /\ UNCHANGED <<mywaiter, wunlocked>>
         ELSE /\ UNCHANGED mutex
              /\ mywaiter' = [mywaiter EXCEPT ![t] = 0]
              /\ wunlocked' = wunlocked \cap Referenced(cond_waiters, mywaiter', cur)
              /\ Goto(t, "aw_except")
    /\ UNCHANGED <<readers, cond_waiters, cur, nwake, tmp, rstake, wstake, calls>>

\* wait: waiter.acquire() returns once notify has released the waiter, and
\* locks it again
acquire_write_wait_notified(t) ==
    /\ pc[t] = "aw_parked"
    /\ mywaiter[t] \in wunlocked
    /\ mywaiter' = [mywaiter EXCEPT ![t] = 0]
    /\ wunlocked' = (wunlocked \ {mywaiter[t]}) \cap Referenced(cond_waiters, mywaiter', cur)
    /\ Goto(t, "aw_restore")
    /\ UNCHANGED <<readers, mutex, cond_waiters, cur, nwake, tmp, rstake, wstake, calls>>

\* variant: `if` in place of `while`, the woken writer returns with the Lock
\* and does not test readers again
acquire_write_wake_no_recheck(t) ==
    /\ pc[t] = "aw_restore"
    /\ lock_free
    /\ lock_acquire(t)
    /\ wstake' = [wstake EXCEPT ![t] = TRUE]
    /\ Returns(t, call[t], "W")
    /\ UNCHANGED <<readers, cond_state, tmp, rstake, calls>>

\* wait: self._acquire_restore() takes the Lock again, and wait returns
acquire_write_wake(t) ==
    /\ pc[t] = "aw_restore"
    /\ lock_free
    /\ lock_acquire(t)
    /\ Goto(t, "aw_check")
    /\ UNCHANGED <<readers, cond_state, tmp, rstake, wstake, calls>>

\* except Exception: self._condition.release(); raise
acquire_write_except(t) ==
    /\ pc[t] = "aw_except"
    /\ IF lock_release_ok THEN lock_release ELSE UNCHANGED mutex
    /\ Raises(t, call[t])
    /\ UNCHANGED <<readers, cond_state, tmp, rstake, wstake, calls>>

------------------------------------------------------------------------------
(* release_write: self._condition.release()                                *)

release_write_body(t, c) ==
    /\ pc[t] = CallerAt(c)
    /\ IF lock_release_ok
         THEN /\ lock_release
              /\ Returns(t, c, "W")
         ELSE /\ UNCHANGED mutex
              /\ Raises(t, c)
    /\ wstake' = [wstake EXCEPT ![t] = FALSE]
    /\ UNCHANGED <<readers, cond_state, tmp, rstake>>

\* the caller calls release_write() for the write stake it holds
release_write(t) ==
    /\ wstake[t]
    /\ release_write_body(t, "raw")
    /\ UNCHANGED calls

\* the caller calls release_write() holding no write stake
release_write_not_held(t) ==
    /\ ~wstake[t]
    /\ CallsLeft
    /\ calls' = [calls EXCEPT ![t] = @ + 1]
    /\ release_write_body(t, "raw")

\* the caller catches the exception a call raised
catch(t) ==
    /\ pc[t] = "raised"
    /\ scopes[t] = <<>>
    /\ Goto(t, "idle")
    /\ UNCHANGED <<readers, mutex, cond_state, tmp, rstake, wstake, calls>>

------------------------------------------------------------------------------
(* read_lock / write_lock: acquire on entry; try: yield; finally: release. *)

\* with lock.read_lock(): entry
read_lock_enter(t) == acquire_read_begin(t, "enter")

\* with lock.write_lock(): entry
write_lock_enter(t) == acquire_write_begin(t, "enter")

\* the body of the innermost open scope raises
body_raise(t) ==
    /\ pc[t] = "idle"
    /\ scopes[t] # <<>>
    /\ Goto(t, "raised")
    /\ UNCHANGED <<readers, mutex, cond_state, tmp, rstake, wstake, calls>>

\* a read_lock without try/finally: an exception closes the scope without
\* calling release_read
read_lock_finally_skips(t, c) ==
    /\ scopes[t] # <<>>
    /\ Top(scopes[t]) = "R"
    /\ IF c = "unwind"
         THEN /\ pc[t] = "raised"
              /\ scopes' = [scopes EXCEPT ![t] = Front(@)]
              /\ UNCHANGED <<pc, call, readers, mutex, cond_state, tmp, rstake, wstake>>
         ELSE release_read_begin(t, c)
    /\ UNCHANGED calls

\* finally: self.release_read(), the body having ended (c = "exit") or raised
\* (c = "unwind")
read_lock_finally(t, c) ==
    /\ scopes[t] # <<>>
    /\ Top(scopes[t]) = "R"
    /\ release_read_begin(t, c)
    /\ UNCHANGED calls

\* a write_lock without try/finally: an exception closes the scope without
\* calling release_write
write_lock_finally_skips(t, c) ==
    /\ scopes[t] # <<>>
    /\ Top(scopes[t]) = "W"
    /\ IF c = "unwind"
         THEN /\ pc[t] = "raised"
              /\ scopes' = [scopes EXCEPT ![t] = Front(@)]
              /\ UNCHANGED <<pc, call, readers, mutex, cond_state, tmp, rstake, wstake>>
         ELSE release_write_body(t, c)
    /\ UNCHANGED calls

\* finally: self.release_write()
write_lock_finally(t, c) ==
    /\ scopes[t] # <<>>
    /\ Top(scopes[t]) = "W"
    /\ release_write_body(t, c)
    /\ UNCHANGED calls

read_lock_exit(t) == read_lock_finally(t, "exit")

read_lock_unwind(t) == read_lock_finally(t, "unwind")

write_lock_exit(t) == write_lock_finally(t, "exit")

write_lock_unwind(t) == write_lock_finally(t, "unwind")

------------------------------------------------------------------------------
(* The steps inside the four methods that matched callers reach.           *)
Steps(t) ==
    \/ acquire_read_enter(t)
    \/ acquire_read_load(t)
    \/ acquire_read_store(t)
    \/ acquire_read_exit(t)
    \/ release_read_enter(t)
    \/ release_read_load(t)
    \/ release_read_store(t)
    \/ release_read_test(t)
    \/ release_read_notify_all(t)
    \/ release_read_is_owned(t)
    \/ release_read_notify(t)
    \/ release_read_notify_first(t)
    \/ release_read_notify_release(t)
    \/ release_read_notify_remove(t)
    \/ release_read_exit(t)
    \/ acquire_write_acquire(t)
    \/ acquire_write_check(t)
    \/ acquire_write_wait(t)
    \/ acquire_write_wait_append(t)
    \/ acquire_write_wait_release(t)
    \/ acquire_write_wait_notified(t)
    \/ acquire_write_wake(t)

(* Matched usage: release_read for a stake the caller holds, release_write *)
(* by the thread that returned from acquire_write.                         *)
MatchedCalls(t) ==
    \/ acquire_read(t)
    \/ release_read(t)
    \/ acquire_write(t)
    \/ release_write(t)

NextMatched == \E t \in Threads : MatchedCalls(t) \/ Steps(t)

SpecMatched == Init /\ [][NextMatched]_vars

(* Matched usage plus release_read without a stake.                        *)
NextUnderflow ==
    \E t \in Threads : MatchedCalls(t) \/ Steps(t) \/ release_read_unmatched(t)

SpecUnderflow == Init /\ [][NextUnderflow]_vars

(* Any usage: also release_write by a thread that holds no write stake,    *)
(* and with it the paths on which the Lock is found unlocked.              *)
Next ==
    \E t \in Threads :
        \/ MatchedCalls(t)
        \/ Steps(t)
        \/ release_read_unmatched(t)
        \/ release_write_not_held(t)
        \/ release_read_not_owned(t)
        \/ release_read_unwind(t)
        \/ acquire_write_not_owned(t)
        \/ acquire_write_except(t)
        \/ catch(t)

Spec == Init /\ [][Next]_vars

(* Scoped usage: every thread uses the lock through read_lock and          *)
(* write_lock only; a body ends normally or raises.                        *)
NextScoped ==
    \E t \in Threads :
        \/ read_lock_enter(t)
        \/ write_lock_enter(t)
        \/ body_raise(t)
        \/ read_lock_exit(t)
        \/ read_lock_unwind(t)
        \/ write_lock_exit(t)
        \/ write_lock_unwind(t)
        \/ Steps(t)
        \/ catch(t)

SpecScoped == Init /\ [][NextScoped]_vars

(* Correct scoped use: scopes are not nested, bodies terminate, and the    *)
(* scheduler is fair.  The budget of calls makes every thread's run finite. *)

\* with lock.read_lock(): entered with no scope open
read_lock_enter_outer(t) == scopes[t] = <<>> /\ read_lock_enter(t)

\* with lock.write_lock(): entered with no scope open
write_lock_enter_outer(t) == scopes[t] = <<>> /\ write_lock_enter(t)

\* what a thread inside a scope or a method does next
ProgressScoped(t) ==
    \/ body_raise(t)
    \/ read_lock_exit(t)
    \/ read_lock_unwind(t)
    \/ write_lock_exit(t)
    \/ write_lock_unwind(t)
    \/ Steps(t)
    \/ catch(t)

NextFlat ==
    \E t \in Threads :
        \/ read_lock_enter_outer(t)
        \/ write_lock_enter_outer(t)
        \/ ProgressScoped(t)

FairFlat == Init /\ [][NextFlat]_vars /\ \A t \in Threads : WF_vars(ProgressScoped(t))

(* Matched usage under fair scheduling: a thread that can take a step      *)
(* inside a method eventually takes one, and a caller that holds a stake   *)
(* eventually calls its release.                                          *)
Progress(t) == Steps(t) \/ release_read(t) \/ release_write(t)

FairMatched == SpecMatched /\ \A t \in Threads : WF_vars(Progress(t))

------------------------------------------------------------------------------
(* Worker threads that use the lock again and again, one stake at a time:  *)
(* for _ in range(n): with lock.read_lock(): pass   (or write_lock).       *)

\* a worker that holds no stake calls acquire_read()
reader_worker_acquire(t) ==
    /\ pc[t] = "idle"
    /\ rstake[t] = 0 /\ ~wstake[t]
    /\ Invoke(t, "ar_enter", "raw")
    /\ UNCHANGED <<readers, mutex, cond_state, tmp, rstake, wstake, calls>>

\* a worker that holds no stake calls acquire_write()
writer_worker_acquire(t) ==
    /\ pc[t] = "idle"
    /\ rstake[t] = 0 /\ ~wstake[t]
    /\ Invoke(t, "aw_acquire", "raw")
    /\ UNCHANGED <<readers, mutex, cond_state, tmp, rstake, wstake, calls>>

NextStream ==
    \E t \in Threads :
        \/ reader_worker_acquire(t)
        \/ writer_worker_acquire(t)
        \/ release_read(t)
        \/ release_write(t)
        \/ Steps(t)

(* Workers under weak fairness: a step that stays possible is taken, and a *)
(* held stake is released.  The Lock hands itself to no waiter in turn.    *)
FairStream == Init /\ [][NextStream]_vars /\ \A t \in Threads : WF_vars(Progress(t))

(* Workers under strong fairness: a step that is possible again and again  *)
(* is taken, so a thread waiting for the Lock gets it.                     *)
StrongFairStream == Init /\ [][NextStream]_vars /\ \A t \in Threads : SF_vars(Progress(t))

------------------------------------------------------------------------------

(* A continuous stream of overlapping readers: the workers above, where a  *)
(* reader facing a pending writer gives its stake back only while another  *)
(* reader holds one, and one thread at a time is the writer.               *)

\* u holds a read stake and is between calls
IdleHolder(u) == rstake[u] > 0 /\ pc[u] = "idle"

\* a reader calls release_read(); while a thread is inside acquire_write it
\* does so only when another reader's stake is outstanding
release_read_overlapping(t) ==
    /\ (\E w \in Threads : InAcquireWrite(w))
            => \E u \in Threads \ {t} : IdleHolder(u)
    /\ release_read(t)

\* a worker calls acquire_write() when no other thread is writing or about to
writer_worker_acquire_single(t) ==
    /\ \A u \in Threads \ {t} : ~InAcquireWrite(u) /\ ~wstake[u]
    /\ writer_worker_acquire(t)

NextOverlap ==
    \E t \in Threads :
        \/ reader_worker_acquire(t)
        \/ writer_worker_acquire_single(t)
        \/ release_read_overlapping(t)
        \/ release_write(t)
        \/ Steps(t)

\* what a thread of the stream does next, other than starting to write
ProgressOverlap(t) ==
    \/ Steps(t)
    \/ reader_worker_acquire(t)
    \/ release_read_overlapping(t)
    \/ release_write(t)

(* The stream under strong fairness: every thread is scheduled, gets the   *)
(* Lock when it is free again and again, and keeps reading.                *)
FairOverlap ==
    Init /\ [][NextOverlap]_vars /\ \A t \in Threads : SF_vars(ProgressOverlap(t))

------------------------------------------------------------------------------

(* Properties.                                                             *)

\* t is inside the mutex-protected part of a method
InSection(t) ==
    pc[t] \in {"ar_load", "ar_store", "ar_exit",
               "rr_load", "rr_store", "rr_test", "rr_exit",
               "aw_check", "aw_wait", "aw_append", "aw_release"} \cup NotifyPath

\* t is inside a method, at a step other threads can neither enable nor disable
\* except through the Lock
InCall(t) == pc[t] \notin {"idle", "raised"}

\* in this step u stays where it is inside its method; the one move left to
\* it is a woken writer's, from its waiter to the Lock it then blocks on
StaysBlocked(u) ==
    \/ pc'[u] = pc[u]
    \/ pc[u] = "aw_parked" /\ pc'[u] = "aw_restore"

RECURSIVE SumStakes(_)
SumStakes(S) ==
    IF S = {} THEN 0
    ELSE LET t == CHOOSE x \in S : TRUE IN rstake[t] + SumStakes(S \ {t})

\* C1 (SpecMatched): at most one thread holds the write stake, no read stake
\* is outstanding while one is held, and a thread that has returned from
\* acquire_write sees readers = 0.
C1_MutualExclusion ==
    \A t \in Threads :
        wstake[t] =>
            /\ \A u \in Threads \ {t} : ~wstake[u]
            /\ \A u \in Threads : rstake[u] = 0
            /\ readers = 0

\* a thread holds the write stake from its first call while another thread,
\* in its second call, stands at acquire_read's mutex acquisition
C1_Witness ==
    \E t \in Threads : \E u \in Threads \ {t} :
        /\ wstake[t] /\ calls[t] = 1
        /\ pc[u] = "ar_enter" /\ calls[u] = 2 /\ rstake[u] = 0

\* C2 (SpecMatched): while a thread holds the write stake, readers does not
\* change and no other thread that is inside acquire_read, release_read or
\* acquire_write moves (a woken writer at most from its waiter to the Lock),
\* so none of these calls completes before release_write.
C2_WriterExcludes ==
    [][\A t \in Threads :
          (wstake[t] /\ wstake'[t]) =>
              /\ readers' = readers /\ readers = 0
              /\ \A u \in Threads \ {t} :
                    /\ InCall(u) => StaysBlocked(u)
                    /\ rstake'[u] = rstake[u]
                    /\ wstake'[u] = wstake[u]]_vars

\* a reader and a second writer are both inside their calls while a third
\* thread holds the write stake
C2_Witness ==
    \E t \in Threads : \E u \in Threads : \E v \in Threads :
        /\ wstake[t] /\ pc[t] = "idle"
        /\ pc[u] = "ar_enter"
        /\ pc[v] = "aw_acquire" /\ v # t

\* C3 as stated (SpecMatched): outside the short critical sections of other
\* threads, a thread that has called acquire_read can always take the Lock
\* and finish on its own, also while a writer holds the write stake.
C3_ReadNeverBlocks ==
    \A t \in Threads :
        (pc[t] = "ar_enter" /\ ~\E u \in Threads : InSection(u))
            => ENABLED acquire_read_enter(t)

\* C3 amended (SpecMatched): when no thread holds the write stake and no
\* thread is inside a critical section, a thread that has called
\* acquire_read or release_read can take the Lock and finish on its own; a
\* writer waiting in acquire_write does not hold the Lock.
C3_ReadBlocksOnlyOnHeldLock ==
    \A t \in Threads :
        (/\ ~\E u \in Threads : InSection(u)
         /\ ~\E u \in Threads : wstake[u])
            => /\ pc[t] = "ar_enter" => ENABLED acquire_read_enter(t)
               /\ pc[t] = "rr_enter" => ENABLED release_read_enter(t)

\* a reader stands at acquire_read's mutex acquisition while a writer is
\* parked in wait() and nobody holds the Lock
C3_Witness ==
    \E t \in Threads : \E u \in Threads :
        /\ pc[t] = "ar_enter"
        /\ pc[u] = "aw_parked" /\ u \in waiters
        /\ lock_free

\* a thread holds a read stake it can never release (it is inside
\* acquire_write), or a write stake it can never release (it is blocked on
\* the Lock it holds itself)
HoldsForever(u) ==
    \/ rstake[u] > 0 /\ InAcquireWrite(u)
    \/ wstake[u] /\ pc[u] \in {"ar_enter", "rr_enter", "aw_acquire"}

\* C4 (FairMatched): a writer registered in wait() and not yet notified sees
\* readers > 0, except while the release_read that stored 0 is on its way to
\* notify_all; and a thread parked in acquire_write eventually returns from
\* it, unless some thread holds a stake forever.
C4_NoLostWakeup ==
    /\ [](\A t \in waiters :
            \/ readers > 0
            \/ \E u \in Threads : pc[u] \in {"rr_test"} \cup NotifyPath)
    /\ \A t \in Threads :
          (pc[t] = "aw_parked") ~> (wstake[t] \/ \E u \in Threads : HoldsForever(u))

\* a writer parked in wait() has been notified by the release_read that
\* brought readers to 0 and can take the Lock again; no stake is held
C4_Witness ==
    \E t \in Threads :
        /\ Woken(t)
        /\ readers = 0 /\ lock_free
        /\ \A u \in Threads : rstake[u] = 0 /\ ~wstake[u] /\ (u # t => pc[u] = "idle")

\* C5 (SpecMatched): readers is never negative, and whenever no thread is
\* inside acquire_read's or release_read's critical section it equals the
\* number of read stakes outstanding, counted per acquisition.
C5_ReadersCountsStakes ==
    /\ readers >= 0
    /\ (\A t \in Threads : pc[t] \notin {"ar_load", "ar_store", "ar_exit", "rr_load",
                                         "rr_store", "rr_test", "rr_exit"} \cup NotifyPath)
         => readers = SumStakes(Threads)

\* one thread holds two read stakes (nested scopes), another holds one, and
\* readers is 3
C5_Witness ==
    \E t \in Threads : \E u \in Threads \ {t} :
        /\ rstake[t] = 2 /\ rstake[u] = 1 /\ readers = 3
        /\ \A v \in Threads : pc[v] = "idle"

NumOpen(s, kind) == Cardinality({i \in 1..Len(s) : s[i] = kind})

RECURSIVE SumOpenReads(_)
SumOpenReads(S) ==
    IF S = {} THEN 0
    ELSE LET t == CHOOSE x \in S : TRUE
         IN NumOpen(scopes[t], "R") + SumOpenReads(S \ {t})

\* C6 (SpecScoped): a thread that is in a scope body, between scopes, or
\* unwinding an exception holds exactly one read stake per open read scope
\* and the write stake exactly when a write scope is open (an acquire that
\* has not returned opened no scope and is followed by no release); when no
\* thread is inside a critical section readers is the number of open read
\* scopes, and the Lock is locked only for an open write scope.
C6_ScopesReleaseOnce ==
    /\ \A t \in Threads :
          pc[t] \in {"idle", "raised"} =>
              /\ rstake[t] = NumOpen(scopes[t], "R")
              /\ wstake[t] = (NumOpen(scopes[t], "W") = 1)
              /\ NumOpen(scopes[t], "W") <= 1
    /\ (\A t \in Threads : ~InSection(t)) =>
          /\ readers = SumOpenReads(Threads)
          /\ ~lock_free => \E t \in Threads : NumOpen(scopes[t], "W") = 1

\* an exception has left the last of the two scopes one thread entered,
\* and readers and the Lock are as before the scopes
C6_Witness ==
    \E t \in Threads :
        /\ pc[t] = "raised" /\ scopes[t] = <<>> /\ calls[t] = 2
        /\ readers = 0 /\ lock_free
        /\ \A u \in Threads \ {t} : calls[u] = 0

\* thread t calls release_write(), holding the write stake or not
ReleaseWriteCall(t) == release_write(t) \/ release_write_not_held(t)

\* C7 (Spec): release_write called while the Lock is unlocked raises
\* RuntimeError to the caller and leaves readers and the Lock unchanged.
C7_ReleaseUnlockedRaises ==
    [][\A t \in Threads :
          (ReleaseWriteCall(t) /\ lock_free) =>
              /\ pc'[t] = "raised"
              /\ readers' = readers
              /\ mutex' = mutex
              /\ waiters' = waiters]_vars

\* on a fresh lock the only call made so far, a release_write, has raised
C7_Witness ==
    \E t \in Threads :
        /\ pc[t] = "raised" /\ calls[t] = 1 /\ lock_free /\ readers = 0
        /\ \A u \in Threads \ {t} : calls[u] = 0 /\ pc[u] = "idle"

\* C8 as stated (Spec): release_write by a thread that does not hold the
\* write stake always raises and never releases the Lock.
C8_ForeignReleaseRaises ==
    [][\A t \in Threads :
          release_write_not_held(t) =>
              /\ pc'[t] = "raised"
              /\ mutex' = mutex]_vars

\* C9 (SpecUnderflow): every store of release_read sets readers to its
\* current value minus one, whatever that value is; no call raises; and
\* waiters are notified only in a state where readers is exactly 0.
C9_UnmatchedReleaseUnderflows ==
    [][\A t \in Threads :
          /\ release_read_store(t) => readers' = readers - 1
          /\ pc'[t] # "raised"
          /\ (waiters \ waiters' # {}) => (readers = 0 /\ readers' = 0)]_vars

\* on a fresh lock one release_read without acquire_read has completed and
\* readers is -1
C9_Witness ==
    \E t \in Threads :
        /\ readers = -1
        /\ pc[t] = "idle" /\ calls[t] = 1 /\ rstake[t] = 0
        /\ \A u \in Threads \ {t} : calls[u] = 0

\* C10 (SpecUnderflow): once a thread that holds the write stake stands in
\* a second acquire_write it stays there, with no exception, and from then
\* on no thread inside acquire_read, release_read or acquire_write moves (a
\* woken writer at most from its waiter to the Lock).
C10_NestedWriteBlocks ==
    [][\A t \in Threads :
          (wstake[t] /\ pc[t] = "aw_acquire") =>
              /\ wstake'[t] /\ pc'[t] = "aw_acquire"
              /\ \A u \in Threads : InCall(u) => StaysBlocked(u)]_vars

\* a thread holding the write stake stands in a nested acquire_write while
\* one thread stands in acquire_read and another in release_read
C10_Witness ==
    \E t \in Threads : \E u \in Threads : \E v \in Threads :
        /\ wstake[t] /\ pc[t] = "aw_acquire" /\ mutex = t
        /\ pc[u] = "ar_enter"
        /\ pc[v] = "rr_enter"

\* t holds a read stake and is inside acquire_write
Upgrading(t) ==
    /\ rstake[t] > 0
    /\ InAcquireWrite(t)

\* C11 (SpecMatched): a thread that calls acquire_write while it holds a read
\* stake never leaves acquire_write and raises nothing, and from then on no
\* thread obtains the write stake; while it is parked and no thread is
\* inside a critical section, the Lock is free for other threads'
\* acquire_read and release_read.
C11_UpgradeDeadlocks ==
    /\ [][\A t \in Threads :
            Upgrading(t) =>
                /\ rstake'[t] > 0
                /\ pc'[t] \in AcquireWritePath
                /\ \A u \in Threads : ~wstake[u] /\ ~wstake'[u]]_vars
    /\ [](\A t \in Threads : \A u \in Threads :
            (/\ Upgrading(t) /\ pc[t] = "aw_parked"
             /\ \A v \in Threads : ~InSection(v))
                => /\ pc[u] = "ar_enter" => ENABLED acquire_read_enter(u)
                   /\ pc[u] = "rr_enter" => ENABLED release_read_enter(u))

\* a thread is parked in acquire_write holding its own read stake, a second
\* thread has since taken a read stake, a third stands in acquire_write
C11_Witness ==
    \E t \in Threads : \E u \in Threads : \E v \in Threads :
        /\ Upgrading(t) /\ pc[t] = "aw_parked" /\ t \in waiters
        /\ rstake[u] = 1 /\ pc[u] = "idle" /\ readers = 2
        /\ pc[v] = "aw_parked" /\ rstake[v] = 0

\* C12 as stated (StrongFairStream): with every stake released in the end,
\* every thread that calls acquire_write eventually returns from it.
C12_WritersNotStarved ==
    \A t \in Threads :
        InAcquireWrite(t) ~> wstake[t]

\* C18 as stated (FairStream): under fair scheduling, with every write
\* stake released in the end, every thread that calls acquire_read
\* eventually completes it, also while other threads keep taking and
\* releasing the write stake.
C18_ReadersNotStarved ==
    \A t \in Threads :
        (pc[t] \in {"ar_enter", "ar_load", "ar_store", "ar_exit"}) ~> (rstake[t] > 0)

\* C13 (FairOverlap): a writer parked in acquire_write does not keep a
\* reader out: a reader standing at acquire_read's mutex acquisition enters
\* as soon as the Lock is free, and every acquire_read completes.  In the
\* stream of overlapping readers every read stake is given back, yet readers
\* stays above 0 and a writer that is inside acquire_write while a reader
\* holds a stake never returns from it.
C13_ReadersStarveWriter ==
    /\ [](\A t \in Threads : \A u \in Threads :
            (pc[t] = "aw_parked" /\ pc[u] = "ar_enter" /\ lock_free)
                => ENABLED acquire_read_enter(u))
    /\ \A u \in Threads :
            (pc[u] \in {"ar_enter", "ar_load", "ar_store", "ar_exit"}) ~> (rstake[u] > 0)
    /\ \A u \in Threads : (rstake[u] > 0) ~> (rstake[u] = 0)
    /\ \A t \in Threads :
            []((InAcquireWrite(t) /\ \E u \in Threads : IdleHolder(u))
                    => [](readers > 0 /\ ~wstake[t]))

\* a writer is parked and not notified while one reader is finishing a
\* release_read that left readers at 1 and another reader holds its stake
C13_Witness ==
    \E t \in Threads : \E u \in Threads : \E v \in Threads :
        /\ pc[t] = "aw_parked" /\ t \in waiters
        /\ pc[u] = "rr_exit" /\ readers = 1
        /\ IdleHolder(v)

\* every thread is between scopes
AllDone == \A t \in Threads : pc[t] = "idle" /\ scopes[t] = <<>>

\* C14 (FairFlat): threads that run finitely many non-nested read_lock and
\* write_lock scopes with terminating bodies all terminate under fair
\* scheduling, and whenever every thread is outside its scopes readers is 0,
\* the Lock is unlocked and no thread waits.
C14_ScopedUseTerminates ==
    /\ <>[]AllDone
    /\ [](AllDone => readers = 0 /\ lock_free /\ cond_waiters = <<>>)
    /\ \A t \in Threads : (pc[t] # "idle" \/ scopes[t] # <<>>) ~> (pc[t] = "idle" /\ scopes[t] = <<>>)

\* all threads have finished, the budget of scopes is used up and two
\* threads ran scopes
C14_Witness ==
    /\ AllDone
    /\ ~CallsLeft
    /\ \E t \in Threads : \E u \in Threads \ {t} : calls[t] > 0 /\ calls[u] > 0
    /\ readers = 0

\* C15 (SpecUnderflow): with release_read called by threads that hold no
\* read stake, a thread that has returned from acquire_write still sees
\* readers <= 0, but it can hold the write stake while a read stake is
\* outstanding; whenever that happens readers is below the number of read
\* stakes outstanding.
C15_UnderflowBreaksExclusion ==
    \A t \in Threads :
        wstake[t] =>
            /\ readers <= 0
            /\ \A u \in Threads :
                   rstake[u] > 0 => readers < SumStakes(Threads)

\* one thread has called release_read once with no stake, and after it a
\* second thread holds the write stake while a third holds a read stake,
\* with readers = 0
C15_Witness ==
    \E t \in Threads : \E u \in Threads \ {t} : \E v \in Threads \ {t, u} :
        /\ wstake[t] /\ pc[t] = "idle"
        /\ rstake[u] = 1 /\ pc[u] = "idle"
        /\ calls[v] = 1 /\ rstake[v] = 0 /\ ~wstake[v] /\ pc[v] = "idle"
        /\ calls[t] = 1 /\ calls[u] = 1
        /\ readers = 0

\* C16 (FairMatched): the notify_all of the release_read that brought readers
\* to 0 wakes every waiting writer; a woken writer takes the Lock and tests
\* readers again before it returns; a writer returns from acquire_write only
\* out of that test, holding the Lock, with readers at 0 and no other write
\* stake outstanding; and every woken writer eventually returns, unless some
\* thread holds a stake forever.
C16_WokenWritersTakeTurns ==
    /\ [][\A t \in Threads :
            /\ (release_read_notify(t) /\ pc'[t] = "rr_exit")
                   => (readers = 0 /\ cond_waiters' = <<>>)
            /\ acquire_write_wake(t) =>
                   (pc'[t] = "aw_check" /\ mutex' = t /\ ~wstake'[t])
            /\ (~wstake[t] /\ wstake'[t]) =>
                   /\ pc[t] = "aw_check" /\ mutex = t /\ readers = 0
                   /\ \A u \in Threads \ {t} : ~wstake[u]]_vars
    /\ \A t \in Threads :
          Woken(t)
              ~> (wstake[t] \/ \E u \in Threads : HoldsForever(u))

\* two writers that waited in acquire_write have both been woken by the
\* release_read that brought readers to 0, and neither has returned yet
C16_Witness ==
    \E t \in Threads : \E u \in Threads \ {t} :
        /\ Woken(t)
        /\ Woken(u)
        /\ cond_waiters = <<>>
        /\ readers = 0
        /\ \A v \in Threads : rstake[v] = 0 /\ ~wstake[v]

\* t is at a statement that reads or writes readers
AccessesReaders(t) ==
    pc[t] \in {"ar_load", "ar_store", "rr_load", "rr_store", "rr_test", "aw_check"}

\* C17 (SpecMatched): a thread at a statement of acquire_read, release_read
\* or acquire_write that reads or writes readers holds the Lock, so no two
\* threads are inside such a section together; between the load and the
\* store of an increment or decrement readers does not change, and every
\* store moves readers by exactly one.
C17_ReadersAccessedUnderLock ==
    /\ [](\A t \in Threads : (AccessesReaders(t) \/ InSection(t)) => mutex = t)
    /\ [](\A t \in Threads : \A u \in Threads \ {t} : ~(InSection(t) /\ InSection(u)))
    /\ [](\A t \in Threads : pc[t] \in {"ar_store", "rr_store"} => tmp[t] = readers)
    /\ [][\A t \in Threads :
            /\ acquire_read_store(t) => readers' = readers + 1
            /\ release_read_store(t) => readers' = readers - 1
            /\ readers' # readers => (mutex # 0 /\ pc[mutex] \in {"ar_store", "rr_store"}
                                      /\ pc'[mutex] # pc[mutex])]_vars

\* one thread stands between the load and the store of release_read's
\* decrement, holding the Lock, while a second waits to enter acquire_read
\* and a third waits to enter acquire_write
C17_Witness ==
    \E t \in Threads : \E u \in Threads : \E v \in Threads :
        /\ pc[t] = "rr_store" /\ mutex = t /\ tmp[t] = readers
        /\ pc[u] = "ar_enter"
        /\ pc[v] = "aw_acquire"

\* t holds the write stake and stands at the mutex acquisition of
\* acquire_read or release_read
Downgrading(t) == wstake[t] /\ pc[t] \in {"ar_enter", "rr_enter"}

\* C19 (SpecUnderflow): once a thread that holds the write stake stands in
\* acquire_read or release_read it stays there, with its write stake and no
\* exception, readers keeps its value, and from then on no thread inside
\* acquire_read, release_read or acquire_write moves (a woken writer at most
\* from its waiter to the Lock).
C19_DowngradeBlocks ==
    [][\A t \in Threads :
          Downgrading(t) =>
              /\ wstake'[t] /\ pc'[t] = pc[t] /\ mutex' = t
              /\ readers' = readers
              /\ \A u \in Threads : InCall(u) => StaysBlocked(u)]_vars

\* a thread holding the write stake stands in acquire_read while one thread
\* stands in acquire_write and another in release_read
C19_Witness ==
    \E t \in Threads : \E u \in Threads : \E v \in Threads :
        /\ wstake[t] /\ pc[t] = "ar_enter" /\ mutex = t
        /\ pc[u] = "aw_acquire"
        /\ pc[v] = "rr_enter"
        /\ readers = 0

====
